---------------------------- MODULE Spec2Model ----------------------------
(***************************************************************************)
(* The client-side upload / listing / analytics state machine of           *)
(* frontend/src/App.js: the FileUploader component (its state lives only   *)
(* while the Upload tab is active), the App component (files, analytics,   *)
(* loading, activeTab) and the axios requests in flight between them and   *)
(* the backend.                                                            *)
(***************************************************************************)
EXTENDS Integers, Sequences, FiniteSets, TLC

\* ------------------------------------------------------------------ bounds
MaxPending == 4      \* capacity of the network: an upload counts 2 (it may
                     \* turn into a list and an analytics request)
MaxBackend == 1      \* number of records the backend stores before it refuses

MaxTypes == 8        \* longest file_type_distribution the backend answers
MaxTags == 15        \* longest top_tags the backend answers

\* ------------------------------------------------------------------ values
Null == "null"                          \* null / undefined
FileRefs == {"photo.png"}             \* the files the user can select
TagTexts == {"", "work, urgent"}
Queries == {"photo"}                    \* the texts the user searches for
Stored == {"invoice.pdf"}               \* records the backend may hold at start
Tabs == {"upload", "files", "analytics"}

None == << >>                           \* useState(null) for analytics
Some(x) == << x >>

\* ---------------------------------------------------------------- requests
\* One record shape for every request; the fields a kind does not use keep
\* their defaults.  live: the FileUploader instance whose handleUpload call
\* awaits the response is still mounted.  latest: no later request has been
\* issued for the files slot (list or search).
Req(k, f, t, p, l, q, n) ==
    [kind |-> k, file |-> f, tags |-> t, isPublic |-> p, live |-> l,
     query |-> q, latest |-> n]

\* the multipart body of an upload request: formData.append turns every
\* value that is not a file into its text
BoolText(b) == IF b THEN "true" ELSE "false"
FormData(r) ==
    [file |-> r.file, tags |-> r.tags, is_public |-> BoolText(r.isPublic)]

NoReq == Req("none", Null, "", FALSE, FALSE, "", FALSE)
UploadReq(f, t, p) == Req("upload", f, t, p, TRUE, "", FALSE)
ListReq == Req("list", Null, "", FALSE, FALSE, "", TRUE)
SearchReq(q) == Req("search", Null, "", FALSE, FALSE, q, TRUE)
AnalyticsReq == Req("analytics", Null, "", FALSE, FALSE, "", FALSE)

VARIABLES
    file, tags, isPublic, uploading,    \* FileUploader state
    files, analytics, loading, activeTab, \* App state
    pending,                            \* bag of requests in flight
    alert,                              \* the handleUpload call blocked in alert()
    backend,                            \* the backend's stored records
    lastEvent                           \* the handler or continuation that ran last

uploader == <<file, tags, isPublic, uploading>>
app == <<files, analytics, loading, activeTab>>
vars == <<file, tags, isPublic, uploading, files, analytics, loading,
          activeTab, pending, alert, backend, lastEvent>>

\* edited: the FileUploader state is no longer what the upload request was
\* built from
Event(op, r) ==
    [op |-> op, live |-> r.live, latest |-> r.latest,
     edited |-> r.live /\ <<r.file, r.tags, r.isPublic>> # <<file, tags, isPublic>>]

\* ------------------------------------------------------ the bag of requests
RECURSIVE SumCopies(_, _)
SumCopies(S, p) ==
    IF S = {} THEN 0
    ELSE LET x == CHOOSE y \in S : TRUE
         IN  p[x] + SumCopies(S \ {x}, p)

Count(p, k) == SumCopies({r \in DOMAIN p : r.kind = k}, p)
InFlight(p) == SumCopies(DOMAIN p, p)
\* an upload in flight reserves room for the two requests its success issues
Weight(p) == InFlight(p) + Count(p, "upload")

Issue(p, r) ==
    IF r \in DOMAIN p THEN [p EXCEPT ![r] = @ + 1]
    ELSE [x \in DOMAIN p \cup {r} |-> IF x = r THEN 1 ELSE p[x]]

Resolve(p, r) ==
    IF p[r] > 1 THEN [p EXCEPT ![r] = @ - 1]
    ELSE [x \in DOMAIN p \ {r} |-> p[x]]

\* every upload in flight loses its FileUploader instance
Orphaned(r) == IF r.kind = "upload" THEN [r EXCEPT !.live = FALSE] ELSE r
OrphanAll(p) ==
    [x \in {Orphaned(r) : r \in DOMAIN p} |->
        SumCopies({r \in DOMAIN p : Orphaned(r) = x}, p)]

\* a new request for the files slot: those in flight are no longer the latest
Superseded(r) ==
    IF r.kind \in {"list", "search"} THEN [r EXCEPT !.latest = FALSE] ELSE r
SupersedeAll(p) ==
    [x \in {Superseded(r) : r \in DOMAIN p} |->
        SumCopies({r \in DOMAIN p : Superseded(r) = x}, p)]

\* ------------------------------------------------------------ FileUploader
FreshUploader == <<Null, "", FALSE, FALSE>>     \* the useState initial values

\* The FileUploader is rendered only while activeTab is 'upload': leaving
\* the tab unmounts it, its state is dropped and the handleUpload calls still
\* awaiting a response belong to no mounted instance.
Mounted(tab) == tab = "upload"
UploaderAt(tab, up) == IF Mounted(tab) THEN up ELSE FreshUploader
PendingAt(tabBefore, tabAfter, p) ==
    IF Mounted(tabBefore) /\ ~Mounted(tabAfter) THEN OrphanAll(p) ELSE p

\* ------------------------------------------------------------------ backend
Matches(q, f) == <<q, f>> \in {<<"invoice", "invoice.pdf">>, <<"photo", "photo.png">>}
Listing == backend
SearchResult(q) == SelectSeq(backend, LAMBDA f : Matches(q, f))
Snapshot == [total_files |-> Len(backend)]
Listings == UNION {[1..n -> Stored] : n \in 0..1}

\* an analytics answer with n file types and m tags, each list ordered by
\* falling count
Entries(n) == [i \in 1..n |-> [id |-> i, count |-> n + 1 - i]]
SnapshotOf(n, m) ==
    [total_files |-> n, file_type_distribution |-> Entries(n),
     top_tags |-> Entries(m)]
Snapshots == {SnapshotOf(n, m) : n \in 0..MaxTypes, m \in 0..MaxTags}

\* the ai_analysis of a file record: null, or an object holding any of the
\* text fields and any of the array fields
TextFields == {"ai_model", "classification", "summary", "description", "confidence"}
ListFields == {"key_topics", "key_subjects", "entities", "tags"}
Texts == UNION {[D -> {"", "x"}] : D \in SUBSET TextFields}
Lists == UNION {[D -> {<< >>, <<"a">>}] : D \in SUBSET ListFields}
FileRecord(an) == [original_filename |-> "photo.png", ai_analysis |-> an]

\* --------------------------------------------------------------------- Init
Init ==
    /\ file = Null /\ tags = "" /\ isPublic = FALSE /\ uploading = FALSE
    /\ files = << >> /\ analytics = None /\ loading = TRUE
    /\ activeTab = "upload"
    /\ pending = Issue(Issue(<< >>, ListReq), AnalyticsReq)
    /\ alert = NoReq
    /\ backend \in Listings
    /\ lastEvent = Event("mount", NoReq)


\* the FileUploader state after a render
Render(up) ==
    /\ file' = up[1] /\ tags' = up[2] /\ isPublic' = up[3] /\ uploading' = up[4]

\* ------------------------------------------------- FileUploader: selection
\* handleFileSelect: setFile(selectedFile)
handleFileSelect(selectedFile) ==
    /\ file' = selectedFile
    /\ UNCHANGED <<tags, isPublic, uploading, app, pending, alert, backend>>

PickFile_WhileIdle ==
    /\ alert = NoReq /\ Mounted(activeTab) /\ ~uploading
    /\ \E f \in FileRefs \cup {Null} :
        /\ handleFileSelect(f)
        /\ lastEvent' = Event("selectFile", NoReq)

\* the hidden file input's onChange: e.target.files[0], undefined when the
\* dialog leaves the input empty
PickFile ==
    /\ alert = NoReq /\ Mounted(activeTab)
    /\ \E f \in FileRefs \cup {Null} :
        /\ handleFileSelect(f)
        /\ lastEvent' = Event("selectFile", NoReq)

\* handleDrop: a drop that carries no file selects nothing
DropFile ==
    /\ alert = NoReq /\ Mounted(activeTab)
    /\ \E droppedFile \in FileRefs \cup {Null} :
        IF droppedFile # Null
        THEN /\ handleFileSelect(droppedFile)
             /\ lastEvent' = Event("selectFile", NoReq)
        ELSE UNCHANGED vars

\* the tags input and the checkbox are rendered only under {file && ...}
EditTags ==
    /\ alert = NoReq /\ Mounted(activeTab) /\ file # Null
    /\ \E t \in TagTexts : tags' = t
    /\ lastEvent' = Event("editTags", NoReq)
    /\ UNCHANGED <<file, isPublic, uploading, app, pending, alert, backend>>

ToggleVisibility ==
    /\ alert = NoReq /\ Mounted(activeTab) /\ file # Null
    /\ isPublic' = ~isPublic
    /\ lastEvent' = Event("toggleVisibility", NoReq)
    /\ UNCHANGED <<file, tags, uploading, app, pending, alert, backend>>

\* --------------------------------------------------- FileUploader: upload
\* handleUpload up to its await: the early return, setUploading(true), the
\* FormData built from the current state, and axios.post
handleUpload_NoTags ==
    /\ alert = NoReq /\ Mounted(activeTab)
    /\ IF file = Null
       THEN /\ lastEvent' = Event("submitNoFile", NoReq)
            /\ UNCHANGED <<uploader, app, pending, alert, backend>>
       ELSE /\ Weight(pending) + 2 <= MaxPending
            /\ uploading' = TRUE
            /\ pending' = Issue(pending, UploadReq(file, "", isPublic))
            /\ lastEvent' = Event("submit", UploadReq(file, "", isPublic))
            /\ UNCHANGED <<file, tags, isPublic, app, alert, backend>>

handleUpload_NoGuard ==
    /\ alert = NoReq /\ Mounted(activeTab)
    /\ Weight(pending) + 2 <= MaxPending
    /\ uploading' = TRUE
    /\ pending' = Issue(pending, UploadReq(file, tags, isPublic))
    /\ lastEvent' = Event(IF file = Null THEN "submitNoFile" ELSE "submit",
                          UploadReq(file, tags, isPublic))
    /\ UNCHANGED <<file, tags, isPublic, app, alert, backend>>

handleUpload_NotUploading ==
    /\ alert = NoReq /\ Mounted(activeTab)
    /\ IF file = Null
       THEN /\ lastEvent' = Event("submitNoFile", NoReq)
            /\ UNCHANGED <<uploader, app, pending, alert, backend>>
       ELSE /\ Weight(pending) + 2 <= MaxPending
            /\ pending' = Issue(pending, UploadReq(file, tags, isPublic))
            /\ lastEvent' = Event("submit", UploadReq(file, tags, isPublic))
            /\ UNCHANGED <<uploader, app, alert, backend>>

handleUpload ==
    /\ alert = NoReq /\ Mounted(activeTab)
    /\ IF file = Null
       THEN /\ lastEvent' = Event("submitNoFile", NoReq)
            /\ UNCHANGED <<uploader, app, pending, alert, backend>>
       ELSE /\ Weight(pending) + 2 <= MaxPending
            /\ uploading' = TRUE
            /\ pending' = Issue(pending, UploadReq(file, tags, isPublic))
            /\ lastEvent' = Event("submit", UploadReq(file, tags, isPublic))
            /\ UNCHANGED <<file, tags, isPublic, app, alert, backend>>

\* the upload button: rendered under {file && ...}, disabled={uploading}
ClickUpload ==
    /\ file # Null /\ ~uploading
    /\ handleUpload

\* ------------------------------------------------------------ App: fetches
\* loadFiles / loadAnalytics / handleSearch up to their await
loadFiles(p) == Issue(SupersedeAll(p), ListReq)
loadAnalytics(p) == Issue(p, AnalyticsReq)
handleSearch(p, q) == Issue(SupersedeAll(p), SearchReq(q))

\* handleUploadSuccess: loadFiles(); loadAnalytics(); setActiveTab('files')
handleUploadSuccess_NoAnalytics(p) ==
    [pending |-> loadFiles(p), activeTab |-> "files"]

handleUploadSuccess(p) ==
    [pending |-> loadAnalytics(loadFiles(p)), activeTab |-> "files"]

\* the state setters of a handleUpload call act on the instance that made
\* the call; on an unmounted instance they change nothing
Cleared(up) == <<Null, "", FALSE, up[4]>>       \* setFile(null) ... setIsPublic(false)

Finally_Skipped(up) == up

Finally_ClearsFile(up) == <<Null, up[2], up[3], FALSE>>

Finally(up) == <<up[1], up[2], up[3], FALSE>>   \* setUploading(false)

OnInstance(r, up) == IF r.live THEN up ELSE uploader

\* response.data.success is true
UploadOk(r) ==
    /\ alert = NoReq /\ r \in DOMAIN pending /\ r.kind = "upload"
    /\ Len(backend) < MaxBackend
    /\ backend' = Append(backend, r.file)
    /\ LET s == handleUploadSuccess(Resolve(pending, r))
           up == OnInstance(r, Finally(Cleared(uploader)))
       IN  /\ activeTab' = s.activeTab
           /\ pending' = PendingAt(activeTab, s.activeTab, s.pending)
           /\ Render(UploaderAt(s.activeTab, up))
    /\ lastEvent' = Event("uploadOk", r)
    /\ UNCHANGED <<files, analytics, loading, alert>>

\* response.data.success is false: the if has no else, only finally runs
UploadRefused(r) ==
    /\ alert = NoReq /\ r \in DOMAIN pending /\ r.kind = "upload"
    /\ pending' = Resolve(pending, r)
    /\ Render(OnInstance(r, Finally(uploader)))
    /\ lastEvent' = Event("uploadRefused", r)
    /\ UNCHANGED <<app, alert, backend>>

\* axios.post rejects: console.error, then alert() blocks the page
UploadError(r) ==
    /\ alert = NoReq /\ r \in DOMAIN pending /\ r.kind = "upload"
    /\ pending' = Resolve(pending, r)
    /\ alert' = r
    /\ lastEvent' = Event("uploadError", r)
    /\ UNCHANGED <<uploader, app, backend>>

\* the user closes the alert: handleUpload goes on to its finally block
DismissAlert ==
    /\ alert # NoReq
    /\ alert' = NoReq
    /\ Render(OnInstance(alert, Finally(uploader)))
    /\ lastEvent' = Event("dismissAlert", alert)
    /\ UNCHANGED <<app, pending, backend>>

\* loadFiles after its await
ListOk(r) ==
    /\ alert = NoReq /\ r \in DOMAIN pending /\ r.kind = "list"
    /\ pending' = Resolve(pending, r)
    /\ files' = Listing
    /\ loading' = FALSE
    /\ lastEvent' = Event("listOk", r)
    /\ UNCHANGED <<uploader, analytics, activeTab, alert, backend>>

ListFail_Clears(r) ==
    /\ alert = NoReq /\ r \in DOMAIN pending /\ r.kind = "list"
    /\ pending' = Resolve(pending, r)
    /\ files' = << >>
    /\ loading' = FALSE
    /\ lastEvent' = Event("listFail", r)
    /\ UNCHANGED <<uploader, analytics, activeTab, alert, backend>>

ListFail_Retries(r) ==
    /\ alert = NoReq /\ r \in DOMAIN pending /\ r.kind = "list"
    /\ pending' = loadFiles(Resolve(pending, r))
    /\ loading' = FALSE
    /\ lastEvent' = Event("listFail", r)
    /\ UNCHANGED <<uploader, files, analytics, activeTab, alert, backend>>

ListFail(r) ==
    /\ alert = NoReq /\ r \in DOMAIN pending /\ r.kind = "list"
    /\ pending' = Resolve(pending, r)
    /\ loading' = FALSE
    /\ lastEvent' = Event("listFail", r)
    /\ UNCHANGED <<uploader, files, analytics, activeTab, alert, backend>>

SearchOk_Merges(r) ==
    /\ alert = NoReq /\ r \in DOMAIN pending /\ r.kind = "search"
    /\ pending' = Resolve(pending, r)
    /\ files' = files \o SearchResult(r.query)
    /\ lastEvent' = Event("searchOk", r)
    /\ UNCHANGED <<uploader, analytics, loading, activeTab, alert, backend>>

\* handleSearch after its await
SearchOk(r) ==
    /\ alert = NoReq /\ r \in DOMAIN pending /\ r.kind = "search"
    /\ pending' = Resolve(pending, r)
    /\ files' = SearchResult(r.query)
    /\ lastEvent' = Event("searchOk", r)
    /\ UNCHANGED <<uploader, analytics, loading, activeTab, alert, backend>>

SearchFail(r) ==
    /\ alert = NoReq /\ r \in DOMAIN pending /\ r.kind = "search"
    /\ pending' = Resolve(pending, r)
    /\ lastEvent' = Event("searchFail", r)
    /\ UNCHANGED <<uploader, app, alert, backend>>

\* loadAnalytics after its await
AnalyticsOk(r) ==
    /\ alert = NoReq /\ r \in DOMAIN pending /\ r.kind = "analytics"
    /\ pending' = Resolve(pending, r)
    /\ analytics' = Some(Snapshot)
    /\ lastEvent' = Event("analyticsOk", r)
    /\ UNCHANGED <<uploader, files, loading, activeTab, alert, backend>>

AnalyticsFail(r) ==
    /\ alert = NoReq /\ r \in DOMAIN pending /\ r.kind = "analytics"
    /\ pending' = Resolve(pending, r)
    /\ lastEvent' = Event("analyticsFail", r)
    /\ UNCHANGED <<uploader, app, alert, backend>>

ClickTab_Reloads ==
    /\ alert = NoReq
    /\ \E t \in Tabs :
        /\ activeTab' = t
        /\ Render(UploaderAt(t, uploader))
        /\ pending' = loadFiles(PendingAt(activeTab, t, pending))
    /\ lastEvent' = Event("clickTab", NoReq)
    /\ UNCHANGED <<files, analytics, loading, alert, backend>>

\* ------------------------------------------------------------ App: the view
\* the nav buttons: setActiveTab(t)
ClickTab ==
    /\ alert = NoReq
    /\ \E t \in Tabs :
        /\ activeTab' = t
        /\ Render(UploaderAt(t, uploader))
        /\ pending' = PendingAt(activeTab, t, pending)
    /\ lastEvent' = Event("clickTab", NoReq)
    /\ UNCHANGED <<files, analytics, loading, alert, backend>>

\* SearchBar (rendered in the Files view): onSearch({query, tags})
ClickSearch ==
    /\ alert = NoReq /\ activeTab = "files"
    /\ Weight(pending) + 1 <= MaxPending
    /\ \E q \in Queries :
        /\ pending' = handleSearch(pending, q)
        /\ lastEvent' = Event("search", SearchReq(q))
    /\ UNCHANGED <<uploader, app, alert, backend>>

ClickReset_ShowsLoading ==
    /\ alert = NoReq /\ activeTab = "files"
    /\ Weight(pending) + 1 <= MaxPending
    /\ pending' = loadFiles(pending)
    /\ loading' = TRUE
    /\ lastEvent' = Event("reset", ListReq)
    /\ UNCHANGED <<uploader, files, analytics, activeTab, alert, backend>>

\* the Clear Search button: resetSearch calls loadFiles
ClickReset ==
    /\ alert = NoReq /\ activeTab = "files"
    /\ Weight(pending) + 1 <= MaxPending
    /\ pending' = loadFiles(pending)
    /\ lastEvent' = Event("reset", ListReq)
    /\ UNCHANGED <<uploader, app, alert, backend>>

\* the body of the Files view, as the class names of the elements rendered:
\* loading ? loading : files.length === 0 ? empty-state : files-grid
FilesBody_EmptyFirst(l, fs) ==
    IF Len(fs) = 0 THEN {"empty-state"}
    ELSE IF l THEN {"loading"} ELSE {"files-grid"}

FilesBody(l, fs) ==
    IF l THEN {"loading"}
    ELSE IF Len(fs) = 0 THEN {"empty-state"} ELSE {"files-grid"}

\* {activeTab === 'files' && ...}
FilesView == IF activeTab = "files" THEN FilesBody(loading, files) ELSE {}

\* ------------------------------------------------------- the Analytics view
TypeLimit == 5       \* file_type_distribution.slice(0, 5)
TagLimit == 10       \* top_tags.slice(0, 10)

\* Array.prototype.slice(b, e) for 0 <= b
Slice_Whole(s, b, e) == s

Slice(s, b, e) ==
    LET end == IF e < Len(s) THEN e ELSE Len(s)
    IN  IF end <= b THEN << >> ELSE [i \in 1..(end - b) |-> s[b + i]]

\* a.f && a.f.length > 0
HasEntries(a, f) == f \in DOMAIN a /\ Len(a[f]) > 0

\* the Analytics component: null without a snapshot, else the rows of the
\* File Types card and the spans of the Popular Tags card (a card with no
\* entries is not rendered)
Analytics(an) ==
    IF an = None THEN [section |-> FALSE, types |-> << >>, tags |-> << >>]
    ELSE LET a == an[1]
         IN  [section |-> TRUE,
              types |-> IF HasEntries(a, "file_type_distribution")
                        THEN Slice(a.file_type_distribution, 0, TypeLimit)
                        ELSE << >>,
              tags |-> IF HasEntries(a, "top_tags")
                       THEN Slice(a.top_tags, 0, TagLimit)
                       ELSE << >>]

\* loadAnalytics after its await, for the request of the mount and whatever
\* snapshot the backend answers
SnapshotArrives ==
    /\ alert = NoReq /\ AnalyticsReq \in DOMAIN pending
    /\ pending' = Resolve(pending, AnalyticsReq)
    /\ \E a \in Snapshots : analytics' = Some(a)
    /\ lastEvent' = Event("analyticsOk", AnalyticsReq)
    /\ UNCHANGED <<uploader, files, loading, activeTab, alert, backend>>

\* ---------------------------------------------------- the AI analysis card
\* the AIAnalysisCard component, as the elements it renders: nothing for a
\* null or empty analysis, else the two badges and one item per field that
\* passes its test (truthiness; for tags also length > 0).  A string is
\* truthy when it is not empty, an array always.
AIAnalysisCard(an) ==
    IF an = None \/ DOMAIN an[1] = {} THEN {}
    ELSE LET a == an[1]
         IN  {"ai-badge", "model-badge"}
             \cup {f \in {"classification", "summary", "description", "confidence"} :
                        f \in DOMAIN a /\ a[f] # ""}
             \cup {f \in {"key_topics", "key_subjects", "entities"} :
                        f \in DOMAIN a}
             \cup {f \in {"tags"} : f \in DOMAIN a /\ Len(a[f]) > 0}

\* loadFiles after its await, for the request of the mount and a listing of
\* one record with whatever ai_analysis the backend answers
RecordArrives ==
    /\ alert = NoReq /\ ListReq \in DOMAIN pending
    /\ pending' = Resolve(pending, ListReq)
    /\ \/ files' = <<FileRecord(None)>>
       \/ \E t \in Texts, l \in Lists : files' = <<FileRecord(Some(t @@ l))>>
    /\ loading' = FALSE
    /\ lastEvent' = Event("listOk", ListReq)
    /\ UNCHANGED <<uploader, analytics, activeTab, alert, backend>>

\* ------------------------------------------------------------ specifications
UploadResponse == \E r \in DOMAIN pending : UploadOk(r) \/ UploadRefused(r) \/ UploadError(r)
ListResponse == \E r \in DOMAIN pending : ListOk(r) \/ ListFail(r)
SearchResponse == \E r \in DOMAIN pending : SearchOk(r) \/ SearchFail(r)
AnalyticsResponse == \E r \in DOMAIN pending : AnalyticsOk(r) \/ AnalyticsFail(r)

\* the page as the user drives it
Next ==
    \/ PickFile \/ DropFile \/ EditTags \/ ToggleVisibility
    \/ ClickUpload \/ ClickTab \/ ClickSearch \/ ClickReset
    \/ UploadResponse \/ DismissAlert
    \/ ListResponse \/ SearchResponse \/ AnalyticsResponse

Spec == Init /\ [][Next]_vars

\* the upload coordinator driven through its handlers, submit included,
\* whatever the view renders
NextCoord == Next \/ handleUpload

SpecCoord == Init /\ [][NextCoord]_vars

\* the page without the search bar, when every upload request in flight is
\* eventually answered and an open alert, which blocks everything else, is
\* eventually closed.  A search or a reset and the answer to a search read
\* and write none of the FileUploader state.
NextUploader ==
    \/ PickFile \/ DropFile \/ EditTags \/ ToggleVisibility
    \/ ClickUpload \/ ClickTab \/ UploadResponse \/ DismissAlert
    \/ ListResponse \/ AnalyticsResponse
Fairness == WF_vars(UploadResponse) /\ WF_vars(DismissAlert)
SpecLive == Init /\ [][NextUploader]_vars /\ Fairness

\* the Analytics component given any snapshot
SpecAnalytics == Init /\ [][SnapshotArrives \/ ClickTab]_vars

\* the AIAnalysisCard component given any analysis
SpecCard == Init /\ [][RecordArrives \/ ClickTab]_vars

\* -------------------------------------------------------------- the claims
\* what the step just taken was
Did(ops) == lastEvent'.op \in ops
UploadFailureOps == {"uploadRefused", "uploadError", "dismissAlert"}
PendingUpload == <<file, tags, isPublic>>
ClearedUpload == <<Null, "", FALSE>>

\* C1 (as stated): when an upload attempt of a mounted uploader has failed
\* (success=false handled, or the network-error alert closed), the selected
\* file, the tags text and the visibility flag are those the request was built
\* from when submit was invoked.
C1_SelectionIsThatOfSubmit ==
    [][ /\ \A r \in DOMAIN pending :
            (UploadRefused(r) /\ r.live) =>
                <<file', tags', isPublic'>> = <<r.file, r.tags, r.isPublic>>
        /\ (DismissAlert /\ alert.live) =>
                <<file', tags', isPublic'>> = <<alert.file, alert.tags, alert.isPublic>>
      ]_vars

\* C1 (amended): handling a failed upload (success=false, a network error,
\* closing its alert) leaves the selected file, the tags text and the
\* visibility flag exactly as they were just before the failure was handled.
C1_FailureKeepsSelection ==
    [][ Did(UploadFailureOps) => UNCHANGED <<file, tags, isPublic>> ]_vars

\* a failed attempt of the mounted uploader is over and the selection, the
\* tags and the visibility flag are still there for another submit
C1_Witness ==
    /\ lastEvent.op \in {"uploadRefused", "dismissAlert"} /\ lastEvent.live
    /\ file # Null /\ tags = "work, urgent" /\ isPublic /\ ~uploading

\* C2: an upload answered success=false surfaces the failure notice exactly
\* as a rejected upload request does.
C2_RefusedSurfacesNotice ==
    [][ Did({"uploadRefused", "uploadError"}) => alert' # NoReq ]_vars

\* C3: at most one upload request is in flight at any time.
C3_OneUploadInFlight == Count(pending, "upload") <= 1

\* C4: a search followed by a reset restores the full listing once both
\* responses have arrived successfully, in either order: the response of the
\* list request issued after the search (the latest request for the files)
\* shows the backend's listing, and so does the response of the superseded
\* search when it arrives right after it.
C4_ResetRestoresListing ==
    [][ /\ (Did({"listOk"}) /\ lastEvent'.latest) => files' = Listing'
        /\ ( /\ lastEvent.op = "listOk" /\ lastEvent.latest
             /\ Did({"searchOk"}) /\ ~lastEvent'.latest
             /\ Count(pending', "list") + Count(pending', "search") = 0 )
           => files' = Listing'
      ]_vars

\* C5: the response to an upload whose uploader has been unmounted is
\* discarded: it changes neither the active tab nor any uploader or App
\* state, and it issues no request.
C5_LateResponseDiscarded ==
    [][ (Did({"uploadOk", "uploadRefused", "uploadError", "dismissAlert"})
            /\ ~lastEvent'.live)
        => /\ UNCHANGED <<uploader, app>>
           /\ InFlight(pending') <= InFlight(pending)
      ]_vars

\* C6: submit takes the upload status from idle to uploading, and the
\* success=true response takes it back to idle with no selected file, empty
\* tags and visibility false.
C6_SuccessfulUploadCycle ==
    [][ /\ Did({"submit"}) => (~uploading /\ uploading')
        /\ (Did({"uploadOk"}) /\ lastEvent'.live) => uploading
        /\ Did({"uploadOk"}) =>
               (~uploading' /\ <<file', tags', isPublic'>> = ClearedUpload)
      ]_vars

C6_Witness ==
    /\ lastEvent.op = "uploadOk" /\ lastEvent.live
    /\ ~uploading /\ PendingUpload = ClearedUpload

\* C7: a success=true upload response sets the active tab to Files and
\* issues exactly one list request and exactly one analytics request; a
\* failed upload issues no request and leaves the active tab unchanged.
C7_SuccessReloadsOnce ==
    [][ /\ Did({"uploadOk"}) =>
            /\ activeTab' = "files"
            /\ Count(pending', "list") = Count(pending, "list") + 1
            /\ Count(pending', "analytics") = Count(pending, "analytics") + 1
            /\ Count(pending', "search") = Count(pending, "search")
            /\ Count(pending', "upload") = Count(pending, "upload") - 1
        /\ Did(UploadFailureOps) =>
            /\ activeTab' = activeTab
            /\ \A k \in {"list", "analytics", "search"} :
                   Count(pending', k) = Count(pending, k)
      ]_vars

C7_Witness ==
    /\ lastEvent.op = "uploadOk" /\ activeTab = "files"
    /\ Count(pending, "list") >= 1 /\ Count(pending, "analytics") >= 1

\* C8: the pending upload is cleared only by a successful upload or by the
\* user emptying the selection: no other step, a tab switch included, takes
\* it from holding something to holding nothing.
C8_ClearedOnlyBySuccess ==
    [][ (PendingUpload # ClearedUpload /\ PendingUpload' = ClearedUpload)
        => Did({"uploadOk", "selectFile"}) ]_vars

\* C9: submit with no file selected issues no request and changes neither
\* the upload status, the notice, tags, visibility, the file collection, the
\* analytics snapshot nor the active tab.
C9_SubmitWithoutFileIsNoOp ==
    [][ (Did({"submit", "submitNoFile"}) /\ file = Null)
        => UNCHANGED <<uploader, app, pending, alert, backend>> ]_vars

C9_Witness ==
    /\ lastEvent.op = "submitNoFile" /\ file = Null /\ Mounted(activeTab)
    /\ tags = "work, urgent"

\* C10: a failed list, search or analytics request leaves the file
\* collection and the analytics snapshot as they were.
C10_FailedFetchKeepsState ==
    [][ Did({"listFail", "searchFail", "analyticsFail"})
        => UNCHANGED <<files, analytics>> ]_vars

C10_Witness ==
    /\ lastEvent.op = "listFail"
    /\ files # << >> /\ analytics # None

Kinds == {"upload", "list", "search", "analytics"}
FetchFailureOps == {"listFail", "searchFail", "analyticsFail"}
ResponseOps ==
    {"uploadOk", "uploadRefused", "uploadError", "listOk", "listFail",
     "searchOk", "searchFail", "analyticsOk", "analyticsFail"}
\* the number of requests the step just taken put in flight: a response
\* step takes its own request out of flight first
Issued ==
    InFlight(pending') - InFlight(pending)
        + (IF Did(ResponseOps) THEN 1 ELSE 0)
Issues == Issued > 0

\* C11: the file collection is the initial empty one or exactly the payload
\* of the successful list or search response resolved last, and the analytics
\* snapshot is absent or exactly the payload of the successful analytics
\* response resolved last: both start empty, a successful response replaces
\* the whole value by its payload, and no other step touches them.
C11_StateIsLastPayload ==
    /\ files = << >> /\ analytics = None
    /\ [][ /\ Did({"listOk"}) => files' = Listing
           /\ Did({"searchOk"}) =>
                \E r \in DOMAIN pending :
                    /\ r.kind = "search" /\ pending' = Resolve(pending, r)
                    /\ files' = SearchResult(r.query)
           /\ ~Did({"listOk", "searchOk"}) => files' = files
           /\ Did({"analyticsOk"}) => analytics' = Some(Snapshot)
           /\ ~Did({"analyticsOk"}) => analytics' = analytics
         ]_vars

\* a search response has replaced the whole collection: nothing of the
\* listing shown before is left although the backend still stores it
C11_Witness ==
    /\ lastEvent.op = "searchOk" /\ ~loading
    /\ files = << >> /\ Listing # << >> /\ analytics = Some(Snapshot)

\* C12: a click on a tab changes, of the App state, only the active tab: it
\* puts no request in flight and leaves the file collection, the analytics
\* snapshot and the loading flag unchanged; a step that both changes the
\* active tab and issues requests is a successful upload response taking the
\* tab to Files.
C12_TabClickOnlySwitches ==
    [][ /\ Did({"clickTab"}) =>
            /\ UNCHANGED <<files, analytics, loading>>
            /\ \A k \in Kinds : Count(pending', k) = Count(pending, k)
        /\ (activeTab' # activeTab /\ Issues) =>
            (Did({"uploadOk"}) /\ activeTab' = "files")
      ]_vars

\* the user has clicked over to the Analytics tab after every response had
\* arrived: still nothing is in flight
C12_Witness ==
    /\ lastEvent.op = "clickTab" /\ activeTab = "analytics"
    /\ InFlight(pending) = 0 /\ files # << >> /\ ~loading

\* C13 (as stated): every request is issued by the mount, by a user action
\* (submit, search, reset) or by a successful upload response, and once a
\* request has failed the number of requests in flight does not grow until
\* the next user action.
C13_NoGrowthUntilUserAction ==
    /\ Count(pending, "list") = 1 /\ Count(pending, "analytics") = 1
    /\ InFlight(pending) = 2
    /\ [][ /\ Issues => Did({"submit", "search", "reset", "uploadOk"})
           /\ ( /\ lastEvent.op \in UploadFailureOps \cup FetchFailureOps
                /\ ~Did({"submit", "search", "reset"}) )
              => InFlight(pending') <= InFlight(pending)
         ]_vars

\* C13 (amended): no request is issued in reaction to a failure.  The mount
\* issues one list and one analytics request; every later request is issued
\* in the step of a user action (submit, search, reset) or of a successful
\* upload response; the step that handles a failed request puts nothing in
\* flight.
C13_NoRequestOnFailure ==
    /\ Count(pending, "list") = 1 /\ Count(pending, "analytics") = 1
    /\ InFlight(pending) = 2
    /\ [][ /\ Issues => Did({"submit", "search", "reset", "uploadOk"})
           /\ Did(UploadFailureOps \cup FetchFailureOps) =>
                /\ Issued = 0
                /\ \A k \in Kinds : Count(pending', k) <= Count(pending, k)
         ]_vars

\* the last request in flight has failed and nothing has been issued for it
C13_Witness ==
    /\ lastEvent.op \in {"listFail", "uploadRefused"}
    /\ InFlight(pending) = 0 /\ loading = FALSE

\* C14: the body of the upload request a submit issues carries the selected
\* file, the tags text exactly as it stands in the input (empty included) and
\* is_public as the text of the visibility flag, all taken at the moment of
\* the submit; selecting, editing tags or toggling visibility afterwards
\* changes no request in flight.
C14_PayloadTakenAtSubmit ==
    [][ /\ Did({"submit"}) =>
            \E r \in DOMAIN pending' :
                /\ r.kind = "upload" /\ r.live
                /\ pending' = Issue(pending, r)
                /\ FormData(r) = [file |-> file, tags |-> tags,
                                  is_public |-> BoolText(isPublic)]
        /\ Did({"selectFile", "editTags", "toggleVisibility"}) =>
            pending' = pending
      ]_vars

\* the tags were emptied while the upload was in flight: the request still
\* carries the text and the flag of the submit
C14_Witness ==
    /\ lastEvent.op = "editTags" /\ uploading /\ tags = "" /\ ~isPublic
    /\ \E r \in DOMAIN pending :
        /\ r.kind = "upload" /\ r.live
        /\ FormData(r) = [file |-> "photo.png", tags |-> "work, urgent",
                          is_public |-> "true"]

\* C15: in the Files view exactly one of the loading indicator, the empty
\* state and the file grid is rendered; the loading indicator whenever the
\* loading flag is set, the empty state exactly when it is not set and the
\* collection is empty, the grid exactly when it is not set and the
\* collection is not empty.
C15_OneFilesBody ==
    activeTab = "files" =>
        /\ Cardinality(FilesView) = 1
        /\ FilesView \subseteq {"loading", "empty-state", "files-grid"}
        /\ "loading" \in FilesView <=> loading
        /\ "empty-state" \in FilesView <=> (~loading /\ files = << >>)
        /\ "files-grid" \in FilesView <=> (~loading /\ files # << >>)

\* the list response has come back empty and the Files view shows the empty
\* state
C15_Witness ==
    /\ activeTab = "files" /\ lastEvent.op = "listOk"
    /\ ~loading /\ files = << >> /\ FilesView = {"empty-state"}

\* C16: the analytics view renders a prefix of each list in snapshot order:
\* of a file_type_distribution of length n the first min(n, 5) entries and
\* of top_tags of length m the first min(m, 10); the snapshot held by the App
\* is a whole answer of the backend, with all n and m entries.
C16_RendersPrefixes ==
    analytics # None =>
        LET a == analytics[1]
            v == Analytics(analytics)
            Min(x, y) == IF x < y THEN x ELSE y
        IN  /\ v.section
            /\ Len(v.types) = Min(Len(a.file_type_distribution), 5)
            /\ \A i \in 1..Len(v.types) : v.types[i] = a.file_type_distribution[i]
            /\ Len(v.tags) = Min(Len(a.top_tags), 10)
            /\ \A i \in 1..Len(v.tags) : v.tags[i] = a.top_tags[i]
            /\ a \in Snapshots

\* a snapshot of 8 file types and 15 tags is held whole and rendered as 5
\* rows and 10 spans
C16_Witness ==
    /\ analytics # None /\ activeTab = "analytics"
    /\ Len(analytics[1].file_type_distribution) = 8
    /\ Len(analytics[1].top_tags) = 15
    /\ Len(Analytics(analytics).types) = 5
    /\ Len(Analytics(analytics).tags) = 10

\* C17: for a file record whose ai_analysis is null no AI analysis card is
\* rendered; for one that has only the model field only the badges are
\* rendered; and a labeled item (classification, summary, description, key
\* topics, key subjects, entities, AI tags, confidence) is rendered if and
\* only if its field is present and not empty.
C17_ItemIffPresentNonEmpty ==
    \A k \in 1..Len(files) :
        LET an == files[k].ai_analysis
            v == AIAnalysisCard(an)
        IN  /\ an = None => v = {}
            /\ (an # None /\ DOMAIN an[1] = {"ai_model"}) =>
                    v = {"ai-badge", "model-badge"}
            /\ (an # None /\ DOMAIN an[1] # {}) =>
                /\ \A f \in TextFields \ {"ai_model"} :
                       f \in v <=> (f \in DOMAIN an[1] /\ an[1][f] # "")
                /\ \A f \in ListFields :
                       f \in v <=> (f \in DOMAIN an[1] /\ Len(an[1][f]) > 0)

\* C18: every started upload eventually leaves the uploading state, whatever
\* the outcome of its request (success=true, success=false, network error
\* and its alert closed): the uploader is never left uploading for ever, when
\* every request in flight is eventually answered.
C18_UploadingEnds == []<>(~uploading)

\* an upload was refused and the uploader it was submitted from is idle
\* again, its selection still there
C18_Witness ==
    /\ lastEvent.op = "uploadRefused" /\ lastEvent.live
    /\ Mounted(activeTab) /\ ~uploading /\ file # Null

\* C19: the loading flag is monotone.  It is set at the start, is cleared by
\* the step in which a list request resolves, successfully or not, by no
\* other step, and is never set again; so a list, search or reset issued
\* later is never shown as loading, and while it is still set the Files view
\* shows the loading indicator even when a search result has already filled
\* the collection.
C19_LoadingMonotone ==
    /\ loading = TRUE
    /\ [][ /\ ~loading => ~loading'
           /\ Did({"listOk", "listFail"}) => ~loading'
           /\ loading' # loading => Did({"listOk", "listFail"})
           /\ (loading' /\ activeTab' = "files") => FilesView' = {"loading"}
         ]_vars

\* a search result has arrived while no list request has resolved yet: the
\* collection is filled and the Files view still shows the loading indicator
C19_Witness ==
    /\ lastEvent.op = "searchOk" /\ activeTab = "files"
    /\ loading /\ files # << >> /\ FilesView = {"loading"}

\* C20: while an upload is in flight and its uploader stays mounted, selecting
\* a file, editing the tags and toggling the visibility remain possible (the
\* last two as long as a file is selected, which is when their inputs are
\* rendered) and only the submit button is disabled; and when that upload
\* succeeds the uploader is cleared of whatever it holds at that moment,
\* without any of it being uploaded.
C20_EditsDuringUploadDiscarded ==
    /\ [](( uploading /\ Mounted(activeTab) /\ alert = NoReq ) =>
            /\ ENABLED PickFile
            /\ file # Null => (ENABLED EditTags /\ ENABLED ToggleVisibility)
            /\ ~ENABLED ClickUpload)
    /\ [][ (Did({"uploadOk"}) /\ lastEvent'.live) =>
            /\ <<file', tags', isPublic'>> = ClearedUpload
            /\ Count(pending', "upload") = Count(pending, "upload") - 1
         ]_vars

\* an upload has succeeded after its uploader had been edited while it was in
\* flight: the uploader is cleared
C20_Witness ==
    /\ lastEvent.op = "uploadOk" /\ lastEvent.live /\ lastEvent.edited
    /\ PendingUpload = ClearedUpload /\ ~uploading

=============================================================================
